---- MODULE Spec2Model ----
(***************************************************************************)
(* Bill upload pipeline of src/app.py: PDF text acquisition with per-page  *)
(* OCR fallback, clean_text, the model call of generate_summary, the       *)
(* label:value parser and consumption-history fallback of                  *)
(* store_bill_details, and the upload_pdf request handler.                 *)
(*                                                                         *)
(* A text is a sequence of lexemes.  A lexeme is one punctuation or        *)
(* whitespace character, one run of digits, one date dd-mm-yyyy, or one    *)
(* word; concatenating texts is concatenating the sequences.  The regular  *)
(* expressions of the source are evaluated lexeme by lexeme.               *)
(***************************************************************************)
EXTENDS Integers, Sequences, FiniteSets, TLC

VARIABLES
    api_key,            \* os.getenv("GOOGLE_GENAI_API_KEY") is set
    pc,                 \* position of the request being handled
    has_file,           \* the request carries a named file
    bill_type,          \* request.form.get('bill_type', 'electricity')
    pdf,                \* the uploaded document: a sequence of pages
    i,                  \* pages already processed by the loop of extract_text_from_pdf
    text,               \* the running buffer of extract_text_from_pdf
    read_error,         \* the outer except of extract_text_from_pdf was taken
    pdf_text,           \* result of extract_text_from_pdf
    summary,            \* result of generate_summary
    oracle_calls,       \* number of model.generate_content calls made
    oracle_failed,      \* the model call of this request raised
    matches,            \* re.findall result inside store_bill_details
    data,               \* the dict built by store_bill_details
    db_failed,          \* the insert of this request raised
    electricity_bills,  \* rows of table electricity_bills
    water_bills,        \* rows of table water_bills
    rows_before,        \* <<rows in electricity_bills, rows in water_bills>> when the request arrived
    response,           \* what upload_pdf returned
    uploads             \* requests received so far

vars == <<api_key, pc, has_file, bill_type, pdf, i, text, read_error, pdf_text,
          summary, oracle_calls, oracle_failed, matches, data, db_failed,
          electricity_bills, water_bills, rows_before, response, uploads>>

-----------------------------------------------------------------------------
(* Bounds of the model *)

MaxChunks == 3

MaxPages == 2

MaxLines == 3

MaxUploads == 1

-----------------------------------------------------------------------------
(* Lexemes *)

\* characters matched by \s
WhiteSpace == {" ", "\n", "\t"}

\* lexemes matched by \d+
DigitRuns == {"1", "2", "5", "40", "500"}

\* lexemes matched by \d{2}-\d{2}-\d{4}
Dates == {"01-01-2025", "31-01-2025", "01-02-2025", "28-02-2025"}

\* str.lower() on the words of the vocabulary that hold an upper-case letter
CaseTable ==
    { <<"Name", "name">>, <<"NAME", "name">>, <<"Address", "address">>,
      <<"ADDRESS", "address">>,
      <<"Bill", "bill">>, <<"Amount", "amount">>, <<"Due", "due">>,
      <<"Date", "date">>, <<"Account", "account">>, <<"Number", "number">>,
      <<"Billing", "billing">>, <<"Period", "period">>,
      <<"Additional", "additional">>, <<"Instructions", "instructions">>,
      <<"Cost", "cost">>, <<"Fluctuations", "fluctuations">>,
      <<"Monthly", "monthly">>, <<"Comparison", "comparison">>,
      <<"Average", "average">>, <<"Daily", "daily">>,
      <<"Consumption", "consumption">>, <<"CONSUMPTION", "consumption">>,
      <<"Energy", "energy">>, <<"Efficiency", "efficiency">>,
      <<"Tips", "tips">>, <<"Water", "water">>,
      <<"Parameters", "parameters">>, <<"Current", "current">>,
      <<"Subsidies", "subsidies">>, <<"Unit", "unit">>,
      <<"Usage", "usage">>, <<"Cycle", "cycle">>, <<"Units", "units">>,
      <<"UNITS", "units">>, <<"Days", "days">>,
      <<"Challenges", "challenges">>, <<"History", "history">>,
      <<"HISTORY", "history">>, <<"Goal", "goal">>, <<"Not", "not">>,
      <<"NOT", "not">>, <<"Found", "found">>, <<"FOUND", "found">>,
      <<"TO", "to">>, <<"To", "to">>, <<"A", "a">>, <<"B", "b">>,
      <<"Error", "error">>, <<"Jan", "jan">> }

LowerMap ==
    [w \in { p[1] : p \in CaseTable } |-> (CHOOSE p \in CaseTable : p[1] = w)[2]]

\* str.lower() of one lexeme
Lower(tok) == IF tok \in DOMAIN LowerMap THEN LowerMap[tok] ELSE tok

\* str.lower() of a text
LowerText(t) == [k \in 1..Len(t) |-> Lower(t[k])]

\* t[from..] (the empty text when from is past the end)
Drop(t, from) == SubSeq(t, from, Len(t))

-----------------------------------------------------------------------------
(* clean_text, src/app.py lines 78-84 *)

\* re.sub(r'\*\*', '', text)
RECURSIVE RemoveEmphasis(_)
RemoveEmphasis(t) ==
    IF Len(t) = 0 THEN <<>>
    ELSE IF Len(t) >= 2 /\ t[1] = "*" /\ t[2] = "*"
        THEN RemoveEmphasis(Drop(t, 3))
        ELSE <<t[1]>> \o RemoveEmphasis(Tail(t))

\* length of the longest run of lexemes of set S that starts at t[from]
RECURSIVE RunLen(_, _, _)
RunLen(t, from, S) ==
    IF from <= Len(t) /\ t[from] \in S THEN 1 + RunLen(t, from + 1, S) ELSE 0

\* length of the match of \(cid:\d+\) at the start of t, 0 when there is none
CidLen(t) ==
    IF Len(t) >= 5 /\ t[1] = "(" /\ t[2] = "cid" /\ t[3] = ":"
        THEN LET n == RunLen(t, 4, DigitRuns)
             IN  IF n >= 1 /\ 4 + n <= Len(t) /\ t[4 + n] = ")" THEN 4 + n ELSE 0
        ELSE 0

\* re.sub(r"\(cid:\d+\)", "", text)
RECURSIVE RemoveCid(_)
RemoveCid(t) ==
    IF Len(t) = 0 THEN <<>>
    ELSE IF CidLen(t) > 0
        THEN RemoveCid(Drop(t, CidLen(t) + 1))
        ELSE <<t[1]>> \o RemoveCid(Tail(t))

\* re.sub(pattern, " ", text) where pattern is one or more lexemes of S
RECURSIVE CollapseRuns(_, _)
CollapseRuns(t, S) ==
    IF Len(t) = 0 THEN <<>>
    ELSE IF t[1] \in S
        THEN <<" ">> \o CollapseRuns(Drop(t, RunLen(t, 1, S) + 1), S)
        ELSE <<t[1]>> \o CollapseRuns(Tail(t), S)

\* str.strip()
RECURSIVE Strip(_)
Strip(t) ==
    IF Len(t) = 0 THEN <<>>
    ELSE IF t[1] \in WhiteSpace THEN Strip(Tail(t))
    ELSE IF t[Len(t)] \in WhiteSpace THEN Strip(SubSeq(t, 1, Len(t) - 1))
    ELSE t

clean_text(t) ==
    LET t1 == RemoveEmphasis(t)
        t2 == RemoveCid(t1)
        t3 == Strip(CollapseRuns(t2, WhiteSpace))
    IN  CollapseRuns(t3, {"\n"})

-----------------------------------------------------------------------------
(* extract_text_from_pdf, src/app.py lines 86-103 *)

\* not page_text.strip()
IsBlank(t) == Strip(t) = <<>>

\* PageText with the OCR fallback left out
PageTextWithoutOcr(page) == page.embedded

\* The text one page adds to the buffer (lines 92-99).  A page is a record:
\* embedded is what page.extract_text() returns, ocr_kind is what the OCR
\* branch does ("text": image_to_string returns ocr_text, "noimage":
\* convert_from_path returns no image, "raise": it raises).
PageText(page) ==
    IF ~IsBlank(page.embedded) THEN page.embedded
    ELSE IF page.ocr_kind = "text" THEN page.ocr_text
    ELSE page.embedded

-----------------------------------------------------------------------------
(* generate_summary, src/app.py lines 105-172 *)

\* the credential check left out
ApiKeyNeverMissing == FALSE

\* if not api_key
ApiKeyMissing == ~api_key

\* the else branch of line 163
InvalidBillType == bill_type \notin {"electricity", "water"}

\* f"Error generating content: {e}"
ErrorSummary(e) == <<"Error", " ", "generating", " ", "content", ":", " ">> \o e

-----------------------------------------------------------------------------
(* store_bill_details, src/app.py lines 174-260 *)

NotProvided == <<"Not", " ", "provided">>

\* keys of the dict of lines 177-183
ElectricityKeys ==
    { <<"name">>, <<"address">>, <<"bill", "_", "amount">>, <<"due", "_", "date">>,
      <<"account", "_", "number">>, <<"billing", "_", "period">>,
      <<"additional", "_", "instructions">>, <<"cost", "_", "fluctuations">>,
      <<"peak", "_", "usage", "_", "hours">>, <<"monthly", "_", "comparison">>,
      <<"avg", "_", "daily", "_", "consumption">>,
      <<"energy", "_", "efficiency", "_", "tips">>,
      <<"additional", "_", "parameters">>,
      <<"current", "_", "units", "_", "consumed">>, <<"subsidies", "_", "unit">>,
      <<"consumption", "_", "history">>, <<"goal", "_", "units">> }

\* keys of the dict of lines 185-191
WaterKeys ==
    { <<"name">>, <<"water", "_", "usage">>, <<"bill", "_", "cycle">>,
      <<"current", "_", "consumption", "_", "units">>,
      <<"current", "_", "consumption", "_", "days">>, <<"billing", "_", "period">>,
      <<"bill", "_", "date">>, <<"account", "_", "number">>, <<"due", "_", "date">>,
      <<"bill", "_", "amount">>, <<"additional", "_", "instructions">>,
      <<"cost", "_", "fluctuations">>, <<"monthly", "_", "comparison">>,
      <<"avg", "_", "daily", "_", "consumption">>,
      <<"water", "_", "efficiency", "_", "tips">>, <<"subsidies", "_", "unit">>,
      <<"challenges">>, <<"bill", "_", "history">>, <<"goal", "_", "units">> }

\* data = {key: "Not provided" for key in [...]}
InitialData(bt) ==
    [k \in (IF bt = "electricity" THEN ElectricityKeys ELSE WaterKeys) |-> NotProvided]

\* the alternatives of group "field" of the pattern of line 196, in order,
\* lower-cased (the pattern is compiled with re.IGNORECASE)
FieldAlternatives ==
    << <<"name">>, <<"address">>, <<"bill", " ", "amount">>, <<"due", " ", "date">>,
       <<"account", " ", "number">>, <<"billing", " ", "period">>,
       <<"additional", " ", "instructions">>, <<"cost", " ", "fluctuations">>,
       <<"monthly", " ", "comparison">>, <<"average", " ", "daily", " ", "consumption">>,
       <<"energy", " ", "efficiency", " ", "tips">>,
       <<"water", " ", "efficiency", " ", "tips">>,
       <<"additional", " ", "parameters">>, <<"current", " ", "units", " ", "consumed">>,
       <<"subsidies", " ", "unit">>, <<"water", " ", "usage">>, <<"bill", " ", "cycle">>,
       <<"current", " ", "consumption", " ", "units">>,
       <<"current", " ", "consumption", " ", "days">>, <<"bill", " ", "date">>,
       <<"challenges">>, <<"bill", " ", "history">>, <<"consumption", " ", "history">>,
       <<"goal", " ", "units">> >>

\* the lexemes s match t at position p, ignoring case
MatchesAt(t, p, s) ==
    /\ p >= 1
    /\ p + Len(s) - 1 <= Len(t)
    /\ \A k \in 1..Len(s) : Lower(t[p + k - 1]) = s[k]

\* (?P<field>...): at position p: the length of the first alternative that
\* matches there and is followed by the colon, 0 when there is none
FieldLenAt(t, p) ==
    LET ok == { a \in 1..Len(FieldAlternatives) :
                  /\ MatchesAt(t, p, FieldAlternatives[a])
                  /\ p + Len(FieldAlternatives[a]) <= Len(t)
                  /\ t[p + Len(FieldAlternatives[a])] = ":" }
    IN  IF ok = {} THEN 0
        ELSE Len(FieldAlternatives[CHOOSE a \in ok : \A b \in ok : a <= b])

\* [-\u2022], the bullet character written as the lexeme "U+2022"
Bullets == {"-", "U+2022"}

\* the lookahead (?=\n\s*[-\u2022]|\n\s*$|\Z) at position q; the pattern is compiled
\* without re.MULTILINE, so $ is the end of the text
LookAhead(t, q) ==
    \/ q = Len(t) + 1
    \/ /\ q <= Len(t)
       /\ t[q] = "\n"
       /\ LET r == q + 1 + RunLen(t, q + 1, WhiteSpace)
          IN  \/ r = Len(t) + 1
              \/ r <= Len(t) /\ t[r] \in Bullets

\* the match of the whole pattern of line 196 at position p
MatchAt(t, p) ==
    LET n  == FieldLenAt(t, p)
        c  == p + n
        v0 == c + 1 + RunLen(t, c + 1, WhiteSpace)
        e  == CHOOSE x \in v0..Len(t) :
                  /\ LookAhead(t, x + 1)
                  /\ \A y \in v0..(x - 1) : ~LookAhead(t, y + 1)
    IN  IF n = 0 THEN [ok |-> FALSE]
        ELSE IF v0 <= Len(t)
            THEN [ok |-> TRUE, field |-> SubSeq(t, p, c - 1),
                  value |-> SubSeq(t, v0, e), end |-> e]
        ELSE IF v0 > c + 1
            THEN [ok |-> TRUE, field |-> SubSeq(t, p, c - 1),
                  value |-> <<t[Len(t)]>>, end |-> Len(t)]
        ELSE [ok |-> FALSE]

\* re.findall(pattern, summary, re.IGNORECASE | re.DOTALL), scanning from p
RECURSIVE FindAll(_, _)
FindAll(t, p) ==
    IF p > Len(t) THEN <<>>
    ELSE LET m == MatchAt(t, p)
         IN  IF m.ok THEN << <<m.field, m.value>> >> \o FindAll(t, m.end + 1)
             ELSE FindAll(t, p + 1)

\* s in t, for texts
Contains(t, s) == \E p \in 1..Len(t) : p + Len(s) - 1 <= Len(t) /\ SubSeq(t, p, p + Len(s) - 1) = s

\* field.lower().replace(" ", "_")
Canonical(field) ==
    [k \in 1..Len(field) |-> IF field[k] = " " THEN "_" ELSE Lower(field[k])]

ConsumptionHistoryKey == <<"consumption", "_", "history">>

\* the key one match is stored under (lines 201-204)
KeyOf(field) ==
    IF Contains(LowerText(field), <<"consumption", " ", "history">>)
        THEN ConsumptionHistoryKey
        ELSE Canonical(field)

\* cleaned_value if cleaned_value.lower() != "not found" else "Not provided"
StoredValue(value) ==
    LET cleaned_value == clean_text(Strip(value))
    IN  IF LowerText(cleaned_value) # <<"not", " ", "found">>
            THEN cleaned_value ELSE NotProvided

\* d with d[k] = v
Assign(d, k, v) == [x \in DOMAIN d \cup {k} |-> IF x = k THEN v ELSE d[x]]

\* the loop of lines 199-204 over ms[from..]
RECURSIVE StoreMatches(_, _, _)
StoreMatches(d, ms, from) ==
    IF from > Len(ms) THEN d
    ELSE StoreMatches(Assign(d, KeyOf(ms[from][1]), StoredValue(ms[from][2])),
                      ms, from + 1)

\* the pattern of line 207 at position p of t:
\* (\d{2}-\d{2}-\d{4} to \d{2}-\d{2}-\d{4}): (\d+) units, re.IGNORECASE;
\* the number of digit lexemes of group 2, 0 when there is no match
HistoryDigitsAt(t, p) ==
    IF /\ p + 7 <= Len(t)
       /\ t[p] \in Dates
       /\ t[p + 1] = " "
       /\ Lower(t[p + 2]) = "to"
       /\ t[p + 3] = " "
       /\ t[p + 4] \in Dates
       /\ t[p + 5] = ":"
       /\ t[p + 6] = " "
    THEN LET n == RunLen(t, p + 7, DigitRuns)
         IN  IF /\ n >= 1
                /\ p + 8 + n <= Len(t)
                /\ t[p + 7 + n] = " "
                /\ Lower(t[p + 8 + n]) = "units"
             THEN n ELSE 0
    ELSE 0

\* re.findall(history_pattern, pdf_text, re.IGNORECASE), scanning from p:
\* the pairs (group 1, group 2)
RECURSIVE HistoryFindAll(_, _)
HistoryFindAll(t, p) ==
    IF p > Len(t) THEN <<>>
    ELSE LET n == HistoryDigitsAt(t, p)
         IN  IF n > 0
                 THEN << <<SubSeq(t, p, p + 4), SubSeq(t, p + 7, p + 6 + n)>> >>
                      \o HistoryFindAll(t, p + 9 + n)
                 ELSE HistoryFindAll(t, p + 1)

\* f"{match[0]}: {match[1]} units"
HistoryEntry(match) == match[1] \o <<":", " ">> \o match[2] \o <<" ", "units">>

\* "; ".join(... for match in hs[from..])
RECURSIVE JoinHistory(_, _)
JoinHistory(hs, from) ==
    IF from > Len(hs) THEN <<>>
    ELSE IF from = Len(hs) THEN HistoryEntry(hs[from])
    ELSE HistoryEntry(hs[from]) \o <<";", " ">> \o JoinHistory(hs, from + 1)

\* the condition of line 206 without the test of the value parsed so far
FallbackAppliesToAnyValue(bt, d, doc) ==
    /\ bt = "electricity"
    /\ doc # <<>>

\* the condition of line 206
FallbackApplies(bt, d, doc) ==
    /\ bt = "electricity"
    /\ d[ConsumptionHistoryKey] = NotProvided
    /\ doc # <<>>

\* lines 206-211
ApplyFallback(bt, d, doc) ==
    IF FallbackApplies(bt, d, doc) /\ HistoryFindAll(doc, 1) # <<>>
        THEN Assign(d, ConsumptionHistoryKey, JoinHistory(HistoryFindAll(doc, 1), 1))
        ELSE d

\* data as it stands at line 213
ExtractedData(sm, bt, doc) ==
    ApplyFallback(bt, StoreMatches(InitialData(bt), FindAll(sm, 1), 1), doc)

\* columns of the INSERT of lines 220-226
ElectricityColumns == ElectricityKeys

\* columns of the INSERT of lines 238-244
WaterColumns == WaterKeys

\* the tuple of values bound to the INSERT (lines 228-235, 246-254)
Row(bt, d) ==
    [c \in (IF bt = "electricity" THEN ElectricityColumns ELSE WaterColumns) |-> d[c]]

-----------------------------------------------------------------------------
(* Inputs *)

\* all sequences over S of length at most n
RECURSIVE SeqsUpTo(_, _)
SeqsUpTo(S, n) ==
    IF n = 0 THEN {<<>>}
    ELSE LET shorter == SeqsUpTo(S, n - 1)
         IN  shorter \cup { Append(q, x) : q \in shorter, x \in S }

\* the concatenation of the texts of ts, sep between consecutive ones
RECURSIVE Join(_, _)
Join(ts, sep) ==
    IF Len(ts) = 0 THEN <<>>
    ELSE IF Len(ts) = 1 THEN ts[1]
    ELSE ts[1] \o sep \o Join(Tail(ts), sep)

\* pages: born-digital, scanned and recognised, scanned with OCR raising
\* (embedded text is one space), scanned with no image rendered
Pages ==
    { [embedded |-> <<"A">>, ocr_kind |-> "text",    ocr_text |-> <<>>],
      [embedded |-> <<>>,    ocr_kind |-> "text",    ocr_text |-> <<"B", "\n">>],
      [embedded |-> <<" ">>, ocr_kind |-> "raise",   ocr_text |-> <<>>],
      [embedded |-> <<>>,    ocr_kind |-> "noimage", ocr_text |-> <<>>] }

\* documents: fails_at = 0 when pdfplumber.open raises, k when
\* page.extract_text() raises on page k, Len(pages) + 1 when neither happens
Pdfs ==
    UNION { { [pages |-> ps, fails_at |-> f] : f \in 0..(Len(ps) + 1) } :
              ps \in SeqsUpTo(Pages, MaxPages) }

\* completions the model returns in the request runs
Completions ==
    { <<>>,
      <<"\n", "-", " ", "Name", ":", " ", "A", "\n", "-", " ", "Address", ":", " ", "B", "\n">> }

BillTypes == {"electricity", "water", "gas"}

-----------------------------------------------------------------------------
(* State machine *)

NoPdf == [pages |-> <<>>, fails_at |-> 1]

\* the variables of one request, as they are before the request is handled
RequestVarsCleared ==
    /\ i' = 0
    /\ text' = <<>>
    /\ read_error' = FALSE
    /\ pdf_text' = <<>>
    /\ summary' = <<>>
    /\ oracle_failed' = FALSE
    /\ matches' = <<>>
    /\ data' = <<>>
    /\ db_failed' = FALSE
    /\ rows_before' = <<Len(electricity_bills), Len(water_bills)>>

Init ==
    /\ api_key \in BOOLEAN
    /\ pc = "idle"
    /\ has_file = FALSE
    /\ bill_type = "electricity"
    /\ pdf = NoPdf
    /\ i = 0
    /\ text = <<>>
    /\ read_error = FALSE
    /\ pdf_text = <<>>
    /\ summary = <<>>
    /\ oracle_calls = 0
    /\ oracle_failed = FALSE
    /\ matches = <<>>
    /\ data = <<>>
    /\ db_failed = FALSE
    /\ electricity_bills = <<>>
    /\ water_bills = <<>>
    /\ rows_before = <<0, 0>>
    /\ response = "none"
    /\ uploads = 0

\* upload_pdf, lines 268-273: the request names no file
UploadWithoutFile ==
    /\ pc \in {"idle", "done"}
    /\ uploads < MaxUploads
    /\ uploads' = uploads + 1
    /\ has_file' = FALSE
    /\ bill_type' = "electricity"
    /\ pdf' = NoPdf
    /\ RequestVarsCleared
    /\ response' = "400"
    /\ pc' = "done"
    /\ UNCHANGED <<api_key, oracle_calls, electricity_bills, water_bills>>

\* upload_pdf, lines 268-282: a file and a bill type arrive, the file is saved
Upload(bt, d) ==
    /\ pc \in {"idle", "done"}
    /\ uploads < MaxUploads
    /\ uploads' = uploads + 1
    /\ has_file' = TRUE
    /\ bill_type' = bt
    /\ pdf' = d
    /\ RequestVarsCleared
    /\ response' = "none"
    /\ pc' = "extract"
    /\ UNCHANGED <<api_key, oracle_calls, electricity_bills, water_bills>>

\* extract_text_from_pdf, lines 91-100: one iteration of the page loop
ExtractPage ==
    /\ pc = "extract"
    /\ pdf.fails_at # 0
    /\ i < Len(pdf.pages)
    /\ pdf.fails_at # i + 1
    /\ text' = text \o PageText(pdf.pages[i + 1]) \o <<"\n">>
    /\ i' = i + 1
    /\ UNCHANGED <<api_key, pc, has_file, bill_type, pdf, read_error, pdf_text,
                   summary, oracle_calls, oracle_failed, matches, data, db_failed,
                   electricity_bills, water_bills, rows_before, response, uploads>>

\* extract_text_from_pdf, lines 101-103: opening the document or
\* page.extract_text() raises; what was read so far is cleaned and returned
ReadError ==
    /\ pc = "extract"
    /\ \/ pdf.fails_at = 0 /\ i = 0
       \/ pdf.fails_at # 0 /\ i < Len(pdf.pages) /\ pdf.fails_at = i + 1
    /\ read_error' = TRUE
    /\ pdf_text' = clean_text(text)
    /\ pc' = "summary"
    /\ UNCHANGED <<api_key, has_file, bill_type, pdf, i, text, summary,
                   oracle_calls, oracle_failed, matches, data, db_failed,
                   electricity_bills, water_bills, rows_before, response, uploads>>

\* extract_text_from_pdf, line 103: the loop is over
FinishExtract ==
    /\ pc = "extract"
    /\ pdf.fails_at # 0
    /\ i = Len(pdf.pages)
    /\ pdf_text' = clean_text(text)
    /\ pc' = "summary"
    /\ UNCHANGED <<api_key, has_file, bill_type, pdf, i, text, read_error, summary,
                   oracle_calls, oracle_failed, matches, data, db_failed,
                   electricity_bills, water_bills, rows_before, response, uploads>>

\* generate_summary raises (lines 107-108, 163-164) and upload_pdf answers 500
\* (lines 286-288)
SummaryRaises ==
    /\ pc = "summary"
    /\ ApiKeyMissing \/ InvalidBillType
    /\ response' = "500"
    /\ pc' = "done"
    /\ UNCHANGED <<api_key, has_file, bill_type, pdf, i, text, read_error, pdf_text,
                   summary, oracle_calls, oracle_failed, matches, data, db_failed,
                   electricity_bills, water_bills, rows_before, uploads>>

\* generate_summary, lines 166-169: the model answers with completion c
GenerateSummary(c) ==
    /\ pc = "summary"
    /\ ~ApiKeyMissing
    /\ ~InvalidBillType
    /\ oracle_calls' = oracle_calls + 1
    /\ summary' = Strip(c)
    /\ pc' = "store"
    /\ UNCHANGED <<api_key, has_file, bill_type, pdf, i, text, read_error, pdf_text,
                   oracle_failed, matches, data, db_failed, electricity_bills,
                   water_bills, rows_before, response, uploads>>

\* generate_summary, lines 166-172: the model call raises e
GenerateSummaryFails(e) ==
    /\ pc = "summary"
    /\ ~ApiKeyMissing
    /\ ~InvalidBillType
    /\ oracle_calls' = oracle_calls + 1
    /\ oracle_failed' = TRUE
    /\ summary' = ErrorSummary(e)
    /\ pc' = "store"
    /\ UNCHANGED <<api_key, has_file, bill_type, pdf, i, text, read_error, pdf_text,
                   matches, data, db_failed, electricity_bills, water_bills,
                   rows_before, response, uploads>>

\* the tables after the with block of lines 216-255; when the insert raises
\* the connection rolls back and lines 257-260 log the error
TablesAfterInsert(bt, d, raises) ==
    IF raises THEN <<electricity_bills, water_bills>>
    ELSE IF bt = "electricity"
        THEN <<Append(electricity_bills, Row(bt, d)), water_bills>>
        ELSE <<electricity_bills, Append(water_bills, Row(bt, d))>>

\* store_bill_details, lines 174-260
StoreBillDetails(raises) ==
    /\ pc = "store"
    /\ matches' = FindAll(summary, 1)
    /\ data' = ExtractedData(summary, bill_type, pdf_text)
    /\ db_failed' = raises
    /\ electricity_bills' = TablesAfterInsert(bill_type, data', raises)[1]
    /\ water_bills' = TablesAfterInsert(bill_type, data', raises)[2]
    /\ pc' = "stored"
    /\ UNCHANGED <<api_key, has_file, bill_type, pdf, i, text, read_error, pdf_text,
                   summary, oracle_calls, oracle_failed, rows_before, response,
                   uploads>>

\* upload_pdf, line 285
Redirect ==
    /\ pc = "stored"
    /\ response' = "redirect"
    /\ pc' = "done"
    /\ UNCHANGED <<api_key, has_file, bill_type, pdf, i, text, read_error, pdf_text,
                   summary, oracle_calls, oracle_failed, matches, data, db_failed,
                   electricity_bills, water_bills, rows_before, uploads>>

Next ==
    \/ UploadWithoutFile
    \/ \E bt \in BillTypes, d \in Pdfs : Upload(bt, d)
    \/ ExtractPage
    \/ ReadError
    \/ FinishExtract
    \/ SummaryRaises
    \/ \E c \in Completions : GenerateSummary(c)
    \/ GenerateSummaryFails(<<"quota">>)
    \/ \E raises \in BOOLEAN : StoreBillDetails(raises)
    \/ Redirect

Spec == Init /\ [][Next]_vars

-----------------------------------------------------------------------------
(* clean_text on its own *)

\* pieces the inputs of clean_text are put together from
Chunks ==
    { <<"*">>, <<"(", "cid", ":", "1", ")">>, <<"(", "cid">>, <<":", "2", ")">>,
      <<" ">>, <<"\n">>, <<"a">> }

NormalizeInputs == { Join(cs, <<>>) : cs \in SeqsUpTo(Chunks, MaxChunks) }

InitNormalize ==
    /\ api_key = TRUE
    /\ pc = "clean"
    /\ has_file = FALSE
    /\ bill_type = "electricity"
    /\ pdf = NoPdf
    /\ i = 0
    /\ text \in NormalizeInputs
    /\ read_error = FALSE
    /\ pdf_text = <<>>
    /\ summary = <<>>
    /\ oracle_calls = 0
    /\ oracle_failed = FALSE
    /\ matches = <<>>
    /\ data = <<>>
    /\ db_failed = FALSE
    /\ electricity_bills = <<>>
    /\ water_bills = <<>>
    /\ rows_before = <<0, 0>>
    /\ response = "none"
    /\ uploads = 0

\* clean_text applied to text
CleanText ==
    /\ pc = "clean"
    /\ pdf_text' = clean_text(text)
    /\ pc' = "cleaned"
    /\ UNCHANGED <<api_key, has_file, bill_type, pdf, i, text, read_error, summary,
                   oracle_calls, oracle_failed, matches, data, db_failed,
                   electricity_bills, water_bills, rows_before, response, uploads>>

\* clean_text applied to its own result; text keeps the first result
CleanAgain ==
    /\ pc = "cleaned"
    /\ text' = pdf_text
    /\ pdf_text' = clean_text(pdf_text)
    /\ pc' = "recleaned"
    /\ UNCHANGED <<api_key, has_file, bill_type, pdf, i, read_error, summary,
                   oracle_calls, oracle_failed, matches, data, db_failed,
                   electricity_bills, water_bills, rows_before, response, uploads>>

NextNormalize == CleanText \/ CleanAgain

SpecNormalize == InitNormalize /\ [][NextNormalize]_vars

-----------------------------------------------------------------------------
(* store_bill_details on its own *)

\* the labels of the checklist of the electricity prompt, lines 123-139
ElectricityPromptLabels ==
    { <<"Name">>, <<"Address">>, <<"Bill", " ", "Amount">>, <<"Due", " ", "Date">>,
      <<"Account", " ", "Number">>, <<"Billing", " ", "Period">>,
      <<"Additional", " ", "Instructions">>, <<"Cost", " ", "Fluctuations">>,
      <<"Monthly", " ", "Comparison">>, <<"Consumption", " ", "History">>,
      <<"Average", " ", "Daily", " ", "Consumption">>,
      <<"Energy", " ", "Efficiency", " ", "Tips">>,
      <<"Additional", " ", "Parameters">>,
      <<"Current", " ", "units", " ", "consumed">>, <<"Goal", " ", "units">>,
      <<"Subsidies", " ", "Unit">>, <<"Challenges">> }

\* the labels of the checklist of the water prompt, lines 143-161
WaterPromptLabels ==
    { <<"Name">>, <<"Water", " ", "Usage">>, <<"Bill", " ", "Cycle">>,
      <<"Current", " ", "Consumption", " ", "Units">>,
      <<"Current", " ", "Consumption", " ", "Days">>, <<"Bill", " ", "History">>,
      <<"Billing", " ", "Period">>, <<"Bill", " ", "Date">>,
      <<"Account", " ", "Number">>, <<"Due", " ", "Date">>, <<"Bill", " ", "Amount">>,
      <<"Additional", " ", "Instructions">>, <<"Cost", " ", "Fluctuations">>,
      <<"Monthly", " ", "Comparison">>,
      <<"Average", " ", "Daily", " ", "Consumption">>,
      <<"Water", " ", "Efficiency", " ", "Tips">>, <<"Subsidies", " ", "Unit">>,
      <<"Goal", " ", "units">>, <<"Challenges">> }

PromptLabels(bt) ==
    IF bt = "electricity" THEN ElectricityPromptLabels ELSE WaterPromptLabels

\* the line "- <label>: <value>"
BulletLine(label, value) == <<"-", " ">> \o label \o <<":", " ">> \o value

\* one-line completions: every label of either checklist with a value
LabelLines ==
    { BulletLine(l, <<"5">>) : l \in ElectricityPromptLabels \cup WaterPromptLabels }

\* lines the longer completions are put together from
Lines ==
    { BulletLine(<<"Name">>, <<"A">>),
      <<"ADDRESS", ":", " ", "B">>,
      <<>>,
      <<"B">>,
      BulletLine(<<"Consumption", " ", "History">>, <<"NOT", " ", " ", "found">>),
      <<"*", "*", "Consumption", " ", "HISTORY", ":", "*", "*", " ", "Jan", ":", " ",
        "5", " ", "units">> }

\* completions handed to store_bill_details, stripped as line 169 strips them
Summaries ==
    LabelLines \cup { Strip(Join(ls, <<"\n">>)) : ls \in SeqsUpTo(Lines, MaxLines) }

HistoryLower ==
    <<"01-01-2025", " ", "to", " ", "31-01-2025", ":", " ", "500", " ", "units">>

HistoryUpper ==
    <<"01-02-2025", " ", "TO", " ", "28-02-2025", ":", " ", "40", " ", "UNITS">>

\* document texts handed to store_bill_details
Docs ==
    { <<>>,
      HistoryLower,
      <<"A", " ">> \o HistoryLower \o <<" ">> \o HistoryLower \o <<" ", "B">>,
      HistoryUpper,
      HistoryLower \o <<" ">> \o HistoryUpper,
      <<"01-01-2025", " ", "to", " ", "31-01-2025", ":", " ", "500", " ", "kWh">> }

InitStore ==
    /\ api_key = TRUE
    /\ pc = "store"
    /\ has_file = TRUE
    /\ bill_type \in {"electricity", "water"}
    /\ pdf = NoPdf
    /\ i = 0
    /\ text = <<>>
    /\ read_error = FALSE
    /\ pdf_text \in Docs
    /\ summary \in Summaries
    /\ oracle_calls = 1
    /\ oracle_failed = FALSE
    /\ matches = <<>>
    /\ data = <<>>
    /\ db_failed = FALSE
    /\ electricity_bills = <<>>
    /\ water_bills = <<>>
    /\ rows_before = <<0, 0>>
    /\ response = "none"
    /\ uploads = 1

NextStore ==
    \/ \E raises \in BOOLEAN : StoreBillDetails(raises)
    \/ Redirect

SpecStore == InitStore /\ [][NextStore]_vars

-----------------------------------------------------------------------------
(* Properties *)

\* rows the request being handled has added to <<electricity_bills, water_bills>>
RowsAdded ==
    <<Len(electricity_bills) - rows_before[1], Len(water_bills) - rows_before[2]>>

\* C1: when the model call fails the upload is aborted: no row is inserted
\* into either table and the upload never ends with the redirect, it ends
\* with the error response.
C1_OracleFailureAborts ==
    oracle_failed =>
        /\ RowsAdded = <<0, 0>>
        /\ response # "redirect"
        /\ pc = "done" => response = "500"

\* C2: an upload ends with the redirect only if exactly one row was added,
\* to the table of its category; and when the model call or the insert
\* failed it ends with an error response and no row was added.
C2_SuccessIffOneRow ==
    pc = "done" =>
        /\ response = "redirect" =>
              RowsAdded = (IF bill_type = "electricity" THEN <<1, 0>> ELSE <<0, 1>>)
        /\ (oracle_failed \/ db_failed) =>
              /\ response \in {"400", "500"}
              /\ RowsAdded = <<0, 0>>

\* what the claim lets a page contribute: its embedded text, or for a page
\* without embedded text what OCR returned, and nothing when OCR failed
C3_Contribution(page) ==
    IF ~IsBlank(page.embedded) THEN page.embedded
    ELSE IF page.ocr_kind = "text" THEN page.ocr_text
    ELSE <<>>

\* the contributions of pages 1..n, each followed by the line separator
RECURSIVE C3_Buffer(_, _)
C3_Buffer(pages, n) ==
    IF n = 0 THEN <<>>
    ELSE C3_Buffer(pages, n - 1) \o C3_Contribution(pages[n]) \o <<"\n">>

\* C3: as long as only OCR fails, the buffer holds, up to normalisation, the
\* contribution of every page processed so far in page order, an OCR failure
\* contributing nothing; the loop reaches the last page, and the extracted
\* text is the normalised concatenation over all pages.
C3_PageIsolation ==
    (has_file /\ ~read_error) =>
        /\ clean_text(text) = clean_text(C3_Buffer(pdf.pages, i))
        /\ pc # "extract" =>
              /\ i = Len(pdf.pages)
              /\ pdf_text = clean_text(C3_Buffer(pdf.pages, Len(pdf.pages)))

\* an OCR failure on a page that is followed by a page with text, after
\* extraction has returned that text
C3_Witness ==
    /\ pc = "summary"
    /\ ~read_error
    /\ \E k \in 1..(Len(pdf.pages) - 1) :
          /\ IsBlank(pdf.pages[k].embedded)
          /\ pdf.pages[k].ocr_kind = "raise"
          /\ ~IsBlank(C3_Contribution(pdf.pages[k + 1]))
    /\ pdf_text # <<>>

\* C9: without the credential no model call is made, no row is inserted,
\* store_bill_details is never reached, and an upload that carries a file
\* ends with the error response.
C9_MissingCredentialFailsFirst ==
    ~api_key =>
        /\ oracle_calls = 0
        /\ electricity_bills = <<>>
        /\ water_bills = <<>>
        /\ pc \notin {"store", "stored"}
        /\ response # "redirect"
        /\ (pc = "done" /\ has_file) => response = "500"

\* an upload whose text was extracted has ended in the error response for
\* want of the credential
C9_Witness ==
    /\ ~api_key
    /\ pc = "done"
    /\ has_file
    /\ bill_type = "electricity"
    /\ pdf_text # <<>>
    /\ response = "500"

\* the Electricity schema as section 6 of the specification lists it
C4_ElectricitySchema ==
    { <<"name">>, <<"address">>, <<"bill", "_", "amount">>, <<"due", "_", "date">>,
      <<"account", "_", "number">>, <<"billing", "_", "period">>,
      <<"additional", "_", "instructions">>, <<"cost", "_", "fluctuations">>,
      <<"monthly", "_", "comparison">>, <<"consumption", "_", "history">>,
      <<"avg", "_", "daily", "_", "consumption">>,
      <<"energy", "_", "efficiency", "_", "tips">>,
      <<"additional", "_", "parameters">>,
      <<"current", "_", "units", "_", "consumed">>, <<"goal", "_", "units">>,
      <<"subsidies", "_", "unit">>, <<"challenges">> }

\* the Water schema as section 6 of the specification lists it
C4_WaterSchema ==
    { <<"name">>, <<"water", "_", "usage">>, <<"bill", "_", "cycle">>,
      <<"current", "_", "consumption", "_", "units">>,
      <<"current", "_", "consumption", "_", "days">>, <<"bill", "_", "history">>,
      <<"billing", "_", "period">>, <<"bill", "_", "date">>,
      <<"account", "_", "number">>, <<"due", "_", "date">>, <<"bill", "_", "amount">>,
      <<"additional", "_", "instructions">>, <<"cost", "_", "fluctuations">>,
      <<"monthly", "_", "comparison">>, <<"avg", "_", "daily", "_", "consumption">>,
      <<"water", "_", "efficiency", "_", "tips">>, <<"subsidies", "_", "unit">>,
      <<"goal", "_", "units">>, <<"challenges">> }

C4_Schema(bt) == IF bt = "electricity" THEN C4_ElectricitySchema ELSE C4_WaterSchema

\* C4: after extraction every key of the category's schema (17 Electricity
\* keys with challenges, 19 Water keys) is in the field map, and for an empty
\* completion every one of them holds the sentinel.
C4_AllSchemaKeysPresent ==
    pc \in {"stored", "done"} =>
        \A k \in C4_Schema(bill_type) :
            /\ k \in DOMAIN data
            /\ summary = <<>> => data[k] = NotProvided

\* C5: after extraction the field map has no key outside the category's
\* schema (the keys section 6 lists, and the always-sentinel column
\* peak_usage_hours): a label of the other category adds no key.
C5_NoExtraKeys ==
    pc \in {"stored", "done"} =>
        DOMAIN data \subseteq
            (C4_Schema(bill_type) \cup {<<"peak", "_", "usage", "_", "hours">>})

\* the schema key of a checklist label: the label lower-cased with
\* underscores, Average Daily Consumption being the key avg_daily_consumption
C6_SchemaKey(label) ==
    IF Canonical(label) = <<"average", "_", "daily", "_", "consumption">>
        THEN <<"avg", "_", "daily", "_", "consumption">>
        ELSE Canonical(label)

\* the row the request being handled has inserted
C6_InsertedRow ==
    IF bill_type = "electricity"
        THEN electricity_bills[Len(electricity_bills)]
        ELSE water_bills[Len(water_bills)]

\* C6: when the completion is the line "- <Label>: 5" for a label of the
\* category's prompt checklist, the inserted row holds 5 under the schema
\* key of that label.
C6_PromptLabelsArePersisted ==
    (pc = "stored" /\ ~db_failed) =>
        \A l \in PromptLabels(bill_type) :
            summary = BulletLine(l, <<"5">>) =>
                /\ C6_SchemaKey(l) \in DOMAIN C6_InsertedRow
                /\ C6_InsertedRow[C6_SchemaKey(l)] = <<"5">>

\* the field map as the loop over the matches leaves it, before the fallback
C7_Parsed == StoreMatches(InitialData(bill_type), FindAll(summary, 1), 1)

\* an occurrence of "<date> to <date>: <integer> units" (in any letter case)
\* starts at position p of doc and its integer is n lexemes long
C7_IsEntry(doc, p, n) ==
    /\ n >= 1
    /\ p + 8 + n <= Len(doc)
    /\ doc[p] \in Dates /\ doc[p + 4] \in Dates
    /\ <<doc[p + 1], Lower(doc[p + 2]), doc[p + 3]>> = <<" ", "to", " ">>
    /\ <<doc[p + 5], doc[p + 6]>> = <<":", " ">>
    /\ \A k \in 0..(n - 1) : doc[p + 7 + k] \in DigitRuns
    /\ <<doc[p + 7 + n], Lower(doc[p + 8 + n])>> = <<" ", "units">>

C7_Entries(doc) ==
    { e \in (1..Len(doc)) \X (1..Len(doc)) : C7_IsEntry(doc, e[1], e[2]) }

\* an occurrence as the document writes it
C7_AsWritten(doc, e) == SubSeq(doc, e[1], e[1] + 8 + e[2])

\* an occurrence as date range, colon, integer and the lower-case word units
C7_Rendered(doc, e) ==
    SubSeq(doc, e[1], e[1] + 4) \o <<":", " ">>
        \o SubSeq(doc, e[1] + 7, e[1] + 6 + e[2]) \o <<" ", "units">>

\* the occurrences es of doc in document order, joined with "; ";
\* asWritten chooses between the two forms of an occurrence
RECURSIVE C7_Joined(_, _, _)
C7_Joined(doc, es, asWritten) ==
    IF es = {} THEN <<>>
    ELSE LET first == CHOOSE e \in es : \A f \in es : e[1] <= f[1]
             head  == IF asWritten THEN C7_AsWritten(doc, first)
                      ELSE C7_Rendered(doc, first)
         IN  IF es = {first} THEN head
             ELSE head \o <<";", " ">> \o C7_Joined(doc, es \ {first}, asWritten)

\* the field map the claim asks for
C7_Expected(asWritten) ==
    IF /\ bill_type = "electricity"
       /\ C7_Parsed[ConsumptionHistoryKey] = NotProvided
       /\ C7_Entries(pdf_text) # {}
    THEN [C7_Parsed EXCEPT ![ConsumptionHistoryKey] =
              C7_Joined(pdf_text, C7_Entries(pdf_text), asWritten)]
    ELSE C7_Parsed

\* C7 as stated: the fallback value is the occurrences of the pattern, as
\* the document writes them, joined with "; ".
C7_FallbackJoinsMatches ==
    pc \in {"stored", "done"} => data = C7_Expected(TRUE)

\* C7 as amended: the fallback is applied exactly for Electricity with the
\* sentinel left by parsing and at least one occurrence of the pattern in
\* any letter case; the value is then, for each occurrence in document order,
\* its date range as written, ": ", its integer and " units" in lower case,
\* joined with "; "; otherwise the parsed field map is unchanged.
C7_FallbackRendersMatches ==
    pc \in {"stored", "done"} => data = C7_Expected(FALSE)

\* the fallback has joined two occurrences after the model answered Not found
C7_Witness ==
    /\ pc = "stored"
    /\ bill_type = "electricity"
    /\ Contains(summary, <<"NOT", " ", " ", "found">>)
    /\ Cardinality(C7_Entries(pdf_text)) = 2
    /\ Contains(data[ConsumptionHistoryKey], <<";", " ">>)
    /\ Contains(pdf_text, <<"UNITS">>)

\* C8: clean_text applied to a result of clean_text returns it unchanged.
C8_NormalizeIdempotent ==
    pc = "recleaned" => pdf_text = text

\* the value ends before position q of t: q is past the end, or a line
\* starting with a bullet begins there, or a blank line follows
C10_EndsBefore(t, q) ==
    \/ q = Len(t) + 1
    \/ /\ q <= Len(t)
       /\ t[q] = "\n"
       /\ LET r == q + 1 + RunLen(t, q + 1, {" ", "\t"})
          IN  \/ r = Len(t) + 1
              \/ t[r] = "\n"
              \/ t[q + 1 + RunLen(t, q + 1, WhiteSpace)] \in Bullets

\* the first label of t that a colon follows
C10_FirstLabel(t) ==
    CHOOSE p \in 1..Len(t) :
        FieldLenAt(t, p) > 0 /\ \A q \in 1..(p - 1) : FieldLenAt(t, q) = 0

\* the value the claim gives the first label of t: from the first character
\* after the colon that is not white space up to the first end
C10_Value(t) ==
    LET c  == C10_FirstLabel(t) + FieldLenAt(t, C10_FirstLabel(t))
        v0 == c + 1 + RunLen(t, c + 1, {" ", "\t"})
        e  == CHOOSE x \in (v0 - 1)..Len(t) :
                  C10_EndsBefore(t, x + 1)
                  /\ \A y \in (v0 - 1)..(x - 1) : ~C10_EndsBefore(t, y + 1)
    IN  SubSeq(t, v0, e)

\* C10: the value captured for the first label runs from the colon to the
\* first of a line starting with a bullet, a blank line or the end of the
\* text (compared with surrounding white space stripped).
C10_ValueEndsAtBlankLine ==
    (pc \in {"stored", "done"} /\ \E p \in 1..Len(summary) : FieldLenAt(summary, p) > 0) =>
        /\ matches # <<>>
        /\ Strip(matches[1][2]) = Strip(C10_Value(summary))

====
